---- MODULE Spec2Model ----
(***************************************************************************)
(* Model of src/expenses.py: a Streamlit page that registers attendees,    *)
(* stores them in a Firestore collection or in a local JSON file, lists    *)
(* them and renders a pass for each selected one.                          *)
(*                                                                         *)
(* Text is a sequence of one-character strings.  The local file is the     *)
(* sequence of characters json.dump writes and json.load parses.  A JSON   *)
(* value in memory is a tagged record:                                     *)
(*   [t |-> "str", v |-> characters]                                       *)
(*   [t |-> "arr", v |-> sequence of values]                               *)
(*   [t |-> "obj", v |-> sequence of [k |-> characters, v |-> value]]      *)
(* (a Python dict keeps insertion order and has one entry per key).        *)
(***************************************************************************)
EXTENDS Integers, Sequences, FiniteSets, TLC

\* ------------------------------------------------------------------------
\* Bounds of the model
\* ------------------------------------------------------------------------

\* Records held by the two stores together.
MaxRecords == 2

\* ------------------------------------------------------------------------
\* Text
\* ------------------------------------------------------------------------

Str(s) == [t |-> "str", v |-> s]
Arr(s) == [t |-> "arr", v |-> s]
Obj(s) == [t |-> "obj", v |-> s]

\* The characters str.strip() removes from both ends.
Whitespace == {" ", "\t", "\n", "\r"}

RECURSIVE lstrip(_)
lstrip(s) ==
    IF s # <<>> /\ Head(s) \in Whitespace THEN lstrip(Tail(s)) ELSE s

RECURSIVE rstrip(_)
rstrip(s) ==
    IF s # <<>> /\ s[Len(s)] \in Whitespace
    THEN rstrip(SubSeq(s, 1, Len(s) - 1))
    ELSE s

strip(s) == rstrip(lstrip(s))

\* ------------------------------------------------------------------------
\* json.dump(data, f, indent=2)
\* ------------------------------------------------------------------------

\* An encoder that escapes nothing.
EscCharNone(c) == <<c>>

\* The escapes of the encoder (ensure_ascii) for the characters of the model.
EscChar(c) ==
    CASE c = "\"" -> <<"\\", "\"">>
      [] c = "\\" -> <<"\\", "\\">>
      [] c = "\n" -> <<"\\", "n">>
      [] c = "\r" -> <<"\\", "r">>
      [] c = "\t" -> <<"\\", "t">>
      [] OTHER    -> <<c>>

RECURSIVE EscChars(_)
EscChars(s) == IF s = <<>> THEN <<>> ELSE EscChar(Head(s)) \o EscChars(Tail(s))

encode_basestring(s) == <<"\"">> \o EscChars(s) \o <<"\"">>

RECURSIVE Spaces(_)
Spaces(n) == IF n = 0 THEN <<>> ELSE <<" ">> \o Spaces(n - 1)

\* "\n" followed by the indentation of nesting level n (indent=2).
newline_indent(n) == <<"\n">> \o Spaces(2 * n)

RECURSIVE iterencode(_, _), iterencode_list(_, _, _), iterencode_dict(_, _, _)
\* The items of a list from index i on, each after its separator.
iterencode_list(items, i, level) ==
    IF i > Len(items) THEN <<>>
    ELSE (IF i = 1 THEN <<>> ELSE <<",">>) \o newline_indent(level)
         \o iterencode(items[i], level) \o iterencode_list(items, i + 1, level)

iterencode_dict(items, i, level) ==
    IF i > Len(items) THEN <<>>
    ELSE (IF i = 1 THEN <<>> ELSE <<",">>) \o newline_indent(level)
         \o encode_basestring(items[i].k) \o <<":", " ">>
         \o iterencode(items[i].v, level) \o iterencode_dict(items, i + 1, level)

iterencode(val, level) ==
    CASE val.t = "str" -> encode_basestring(val.v)
      [] val.t = "arr" ->
           IF val.v = <<>> THEN <<"[", "]">>
           ELSE <<"[">> \o iterencode_list(val.v, 1, level + 1)
                \o newline_indent(level) \o <<"]">>
      [] val.t = "obj" ->
           IF val.v = <<>> THEN <<"{", "}">>
           ELSE <<"{">> \o iterencode_dict(val.v, 1, level + 1)
                \o newline_indent(level) \o <<"}">>

json_dump(data) == iterencode(data, 0)

\* ------------------------------------------------------------------------
\* json.load(f)
\* ------------------------------------------------------------------------

\* The whitespace the decoder skips between tokens.
JsonWS == {" ", "\t", "\n", "\r"}

Fail == [ok |-> FALSE]

RECURSIVE skip_ws(_, _)
skip_ws(s, i) == IF i <= Len(s) /\ s[i] \in JsonWS THEN skip_ws(s, i + 1) ELSE i

\* The character an escape stands for; "" when the escape is invalid.
Unescape(c) ==
    CASE c = "\"" -> "\""
      [] c = "\\" -> "\\"
      [] c = "/"  -> "/"
      [] c = "n"  -> "\n"
      [] c = "r"  -> "\r"
      [] c = "t"  -> "\t"
      [] OTHER    -> ""

\* scanstring from the character after the opening quote (strict mode: a
\* literal control character ends the parse with an error).
RECURSIVE scanstring(_, _, _)
scanstring(s, i, acc) ==
    IF i > Len(s) THEN Fail
    ELSE IF s[i] = "\"" THEN [ok |-> TRUE, v |-> acc, end |-> i + 1]
    ELSE IF s[i] \in {"\n", "\r", "\t"} THEN Fail
    ELSE IF s[i] = "\\"
         THEN IF i + 1 > Len(s) \/ Unescape(s[i + 1]) = "" THEN Fail
              ELSE scanstring(s, i + 2, Append(acc, Unescape(s[i + 1])))
    ELSE scanstring(s, i + 1, Append(acc, s[i]))

\* dict[key] = value: the value of an existing key is replaced in place.
RECURSIVE dict_set(_, _, _)
dict_set(items, key, val) ==
    IF items = <<>> THEN <<[k |-> key, v |-> val]>>
    ELSE IF Head(items).k = key THEN <<[k |-> key, v |-> val]>> \o Tail(items)
    ELSE <<Head(items)>> \o dict_set(Tail(items), key, val)

RECURSIVE scan_once(_, _), JSONArray(_, _, _), JSONObject(_, _, _)
\* The values of an array; i is the index of the next value.
JSONArray(s, i, acc) ==
    LET r == scan_once(s, i) IN
    IF ~r.ok THEN Fail
    ELSE LET j == skip_ws(s, r.end) IN
         IF j > Len(s) THEN Fail
         ELSE IF s[j] = "]"
              THEN [ok |-> TRUE, v |-> Arr(Append(acc, r.v)), end |-> j + 1]
         ELSE IF s[j] # "," THEN Fail
         ELSE JSONArray(s, skip_ws(s, j + 1), Append(acc, r.v))

\* The pairs of an object; i is the index of the opening quote of the next key.
JSONObject(s, i, acc) ==
    IF i > Len(s) \/ s[i] # "\"" THEN Fail
    ELSE LET key == scanstring(s, i + 1, <<>>) IN
         IF ~key.ok THEN Fail
         ELSE LET c == skip_ws(s, key.end) IN
              IF c > Len(s) \/ s[c] # ":" THEN Fail
              ELSE LET r == scan_once(s, skip_ws(s, c + 1)) IN
                   IF ~r.ok THEN Fail
                   ELSE LET j == skip_ws(s, r.end) IN
                        IF j > Len(s) THEN Fail
                        ELSE IF s[j] = "}"
                             THEN [ok |-> TRUE, v |-> Obj(dict_set(acc, key.v, r.v)),
                                   end |-> j + 1]
                        ELSE IF s[j] # "," THEN Fail
                        ELSE JSONObject(s, skip_ws(s, j + 1), dict_set(acc, key.v, r.v))

\* One value starting at index i.  The contents the model writes hold
\* strings, arrays and objects only.
scan_once(s, i) ==
    IF i > Len(s) THEN Fail
    ELSE IF s[i] = "\"" THEN
         LET r == scanstring(s, i + 1, <<>>) IN
         IF r.ok THEN [ok |-> TRUE, v |-> Str(r.v), end |-> r.end] ELSE Fail
    ELSE IF s[i] = "[" THEN
         LET j == skip_ws(s, i + 1) IN
         IF j <= Len(s) /\ s[j] = "]" THEN [ok |-> TRUE, v |-> Arr(<<>>), end |-> j + 1]
         ELSE JSONArray(s, j, <<>>)
    ELSE IF s[i] = "{" THEN
         LET j == skip_ws(s, i + 1) IN
         IF j <= Len(s) /\ s[j] = "}" THEN [ok |-> TRUE, v |-> Obj(<<>>), end |-> j + 1]
         ELSE JSONObject(s, j, <<>>)
    ELSE Fail

\* decode: one value, then nothing but whitespace ("Extra data" otherwise).
json_load(s) ==
    LET r == scan_once(s, skip_ws(s, 1)) IN
    IF ~r.ok THEN Fail
    ELSE IF skip_ws(s, r.end) # Len(s) + 1 THEN Fail
    ELSE [ok |-> TRUE, v |-> r.v]

\* ------------------------------------------------------------------------
\* Python values and dictionaries
\* ------------------------------------------------------------------------

None == [t |-> "none", v |-> <<>>]

\* bool(x) of a str, list or dict (and of None).
Truthy(val) == val.v # <<>>

RECURSIVE dict_get(_, _, _)
\* d.get(key, default) on the items of a dict.
dict_get(items, key, default) ==
    IF items = <<>> THEN default
    ELSE IF Head(items).k = key THEN Head(items).v
    ELSE dict_get(Tail(items), key, default)

k_name       == <<"n", "a", "m", "e">>
k_class      == <<"c", "l", "a", "s", "s">>
k_age        == <<"a", "g", "e">>
k_contact    == <<"c", "o", "n", "t", "a", "c", "t">>
k_reference  == <<"r", "e", "f", "e", "r", "e", "n", "c", "e">>
k_created_at == <<"c", "r", "e", "a", "t", "e", "d", "_", "a", "t">>
k_id         == <<"_", "i", "d">>

\* ------------------------------------------------------------------------
\* Inputs
\* ------------------------------------------------------------------------

Form(n, c, a, p, r) ==
    [name |-> n, cls |-> c, age |-> a, contact |-> p, reference |-> r]

\* The form as a run without a submit sees it.
NoForm == Form(<<>>, <<>>, <<>>, <<>>, <<>>)

\* What the user types into the five text inputs.
Forms ==
    { Form(<<>>, <<"3", "A">>, <<"8">>, <<"5">>, <<"R", "1">>),
      Form(<<" ", "\t">>, <<>>, <<>>, <<>>, <<>>),
      Form(<<" ", "A", " ">>, <<"3", "A">>, <<"8">>, <<"5", "-", "0">>, <<>>),
      Form(<<"B", "o">>, <<>>, <<>>, <<>>, <<" ">>),
      Form(<<"A", " ", "b", "\t">>, <<" ", "3", "\"">>, <<"8", " ">>, <<"\\", "5">>,
           <<" ", "R", "1", " ">>) }

\* str(uuid.uuid4())[:8]
Tokens == {<<"u", "1">>, <<"u", "2">>}

\* datetime.utcnow().isoformat()
Timestamps == {<<"T", "0">>}

DigitChar == <<"1", "2", "3", "4", "5", "6", "7", "8", "9">>

\* The ids the document store can assign.
DocIds == 1..MaxRecords

\* The text of a document id.
IdText(n) == <<"d", DigitChar[n]>>

\* ------------------------------------------------------------------------
\* State
\* ------------------------------------------------------------------------

VARIABLES
    FIREBASE_AVAILABLE, \* the firebase_admin import succeeded
    creds,              \* serviceAccountKey.json: "absent", "malformed", "valid"
    coll,               \* the Firestore collection: document id -> document
    file_exists,        \* os.path.exists(LOCAL_DB_FILE)
    file,               \* the characters of LOCAL_DB_FILE
    op,                 \* what triggered the last script run
    form,               \* the form values of the last script run
    db_client,          \* the backend the last script run selected
    warned,             \* the last run showed "Firebase init failed"
    msg,                \* st.error / st.success of the submit handler
    attendees,          \* the list the last script run read back
    passes,             \* the passes the last script run offered
    exc,                \* the exception that ended the last script run
    saved,              \* history: the documents save_local was called with
    sessions            \* concurrent sessions inside save_local

env_vars  == <<FIREBASE_AVAILABLE, creds>>
store_vars == <<coll, file_exists, file>>
run_vars  == <<op, form, db_client, warned, msg, attendees, passes, exc>>
vars == <<FIREBASE_AVAILABLE, creds, coll, file_exists, file, op, form,
          db_client, warned, msg, attendees, passes, exc, saved, sessions>>

NoMsg == [kind |-> "none", text |-> <<>>]

\* ------------------------------------------------------------------------
\* Firebase helpers
\* ------------------------------------------------------------------------

\* init_firebase(): the client ("local" for None) and whether the warning was
\* shown.  The app registry firebase_admin._apps only decides whether
\* initialize_app is called again; it does not change what is returned.
init_firebase ==
    IF ~FIREBASE_AVAILABLE THEN [client |-> "local", warned |-> FALSE]
    ELSE IF creds = "absent" THEN [client |-> "local", warned |-> FALSE]
    ELSE IF creds = "malformed" THEN [client |-> "local", warned |-> TRUE]
    ELSE [client |-> "remote", warned |-> FALSE]

\* save_to_firestore(db, doc) with the id the store assigns to the new document.
save_to_firestore(c, id, doc) ==
    [i \in DOMAIN c \cup {id} |-> IF i = id THEN doc ELSE c[i]]

RECURSIVE stream(_, _)
\* The documents of the collection by ascending id, each with its "_id".
stream(c, ids) ==
    IF ids = {} THEN <<>>
    ELSE LET i == CHOOSE x \in ids : \A y \in ids : x <= y IN
         <<Obj(dict_set(c[i].v, k_id, Str(IdText(i))))>> \o stream(c, ids \ {i})

read_from_firestore(c) == Arr(stream(c, DOMAIN c))

\* ------------------------------------------------------------------------
\* Local storage fallback
\* ------------------------------------------------------------------------

load_local(exists, content) ==
    IF ~exists THEN Arr(<<>>)
    ELSE LET r == json_load(content) IN
         IF r.ok THEN r.v ELSE Arr(<<>>)

\* data = [att]
list_replace(data, att) == [raised |-> "", data |-> Arr(<<att>>)]

\* data.append(att): only a list has append.
list_append(data, att) ==
    IF data.t = "arr" THEN [raised |-> "", data |-> Arr(Append(data.v, att))]
    ELSE [raised |-> "AttributeError", data |-> data]

\* save_local(att) run to completion: the exception it raises and the file
\* it leaves.
save_local(exists, content, att) ==
    LET a == list_append(load_local(exists, content), att) IN
    IF a.raised # "" THEN [raised |-> a.raised, exists |-> exists, file |-> content]
    ELSE [raised |-> "", exists |-> TRUE, file |-> json_dump(a.data)]

\* ------------------------------------------------------------------------
\* PDF generation
\* ------------------------------------------------------------------------

Line(label, text) == [label |-> label, text |-> text]

\* The strings generate_pass_pdf_bytes draws inside the card, top to bottom:
\* the fixed part of each and the part taken from the record.
generate_pass_pdf_bytes(attendee) ==
    << Line("", dict_get(attendee.v, k_name,
                         Str(<<"U", "n", "k", "n", "o", "w", "n">>)).v),
       Line("Class / Grade : ", dict_get(attendee.v, k_class, Str(<<"-">>)).v),
       Line("Age           : ", dict_get(attendee.v, k_age, Str(<<"-">>)).v),
       Line("Contact       : ", dict_get(attendee.v, k_contact, Str(<<"-">>)).v),
       Line("Reference     : ", dict_get(attendee.v, k_reference, Str(<<"-">>)).v),
       Line("- Please carry this pass during the event.", <<>>),
       Line("- Parents/Guardians must supervise children.", <<>>) >>

\* ------------------------------------------------------------------------
\* The page
\* ------------------------------------------------------------------------

\* a.get("_id", a.get("reference"))
Ident(a) == dict_get(a.v, k_id, dict_get(a.v, k_reference, None))

\* build_doc with the form values stored as typed.
build_doc_untrimmed(f, token, now) ==
    Obj(<< [k |-> k_name,       v |-> Str(f.name)],
           [k |-> k_class,      v |-> Str(f.cls)],
           [k |-> k_age,        v |-> Str(f.age)],
           [k |-> k_contact,    v |-> Str(f.contact)],
           [k |-> k_reference,
            v |-> Str(IF strip(f.reference) # <<>> THEN f.reference ELSE token)],
           [k |-> k_created_at, v |-> Str(now)] >>)

\* build_doc with the generated reference used only for an untyped one
\* (reference or uuid, stripped afterwards).
build_doc_typed_reference(f, token, now) ==
    Obj(<< [k |-> k_name,       v |-> Str(strip(f.name))],
           [k |-> k_class,      v |-> Str(strip(f.cls))],
           [k |-> k_age,        v |-> Str(strip(f.age))],
           [k |-> k_contact,    v |-> Str(strip(f.contact))],
           [k |-> k_reference,
            v |-> Str(IF f.reference # <<>> THEN strip(f.reference) ELSE token)],
           [k |-> k_created_at, v |-> Str(now)] >>)

\* The document the submit handler builds.
build_doc(f, token, now) ==
    Obj(<< [k |-> k_name,       v |-> Str(strip(f.name))],
           [k |-> k_class,      v |-> Str(strip(f.cls))],
           [k |-> k_age,        v |-> Str(strip(f.age))],
           [k |-> k_contact,    v |-> Str(strip(f.contact))],
           [k |-> k_reference,
            v |-> Str(IF strip(f.reference) # <<>> THEN strip(f.reference) ELSE token)],
           [k |-> k_created_at, v |-> Str(now)] >>)

\* if not name
name_missing_untrimmed(f) == f.name = <<>>

\* if not name.strip()
name_missing(f) == strip(f.name) = <<>>

\* The form submit handler with backend db: the message shown, the exception
\* raised and the stores afterwards.  The "_id" the remote branch adds to doc
\* after the write stays in memory and is dropped with the run.
submit_handler(db, f, token, now, id) ==
    IF name_missing(f)
    THEN [msg |-> [kind |-> "error", text |-> <<>>], raised |-> "",
          coll |-> coll, exists |-> file_exists, file |-> file]
    ELSE LET doc == build_doc(f, token, now) IN
         IF db = "remote"
         THEN [msg |-> [kind |-> "success", text |-> f.name], raised |-> "",
               coll |-> save_to_firestore(coll, id, doc),
               exists |-> file_exists, file |-> file]
         ELSE LET s == save_local(file_exists, file, doc) IN
              [msg |-> IF s.raised = "" THEN [kind |-> "success", text |-> f.name]
                       ELSE NoMsg,
               raised |-> s.raised, coll |-> coll, exists |-> s.exists, file |-> s.file]

\* The passes offered for the attendees whose identifier is selected.
RECURSIVE offered(_, _)
offered(atts, selected_ids) ==
    IF atts = <<>> THEN <<>>
    ELSE (IF Ident(Head(atts)) \in selected_ids
          THEN <<[of |-> Head(atts), pdf |-> generate_pass_pdf_bytes(Head(atts))]>>
          ELSE <<>>) \o offered(Tail(atts), selected_ids)

\* The list and export section for the value read back: pd.DataFrame rejects
\* a str and a dict of scalars, a.get needs every element to be a dict.
list_section(atts, button, selected_ids) ==
    IF ~Truthy(atts) THEN [raised |-> "", passes |-> <<>>]
    ELSE IF atts.t # "arr" THEN [raised |-> "ValueError", passes |-> <<>>]
    ELSE IF \E i \in 1..Len(atts.v) : atts.v[i].t # "obj"
         THEN [raised |-> "AttributeError", passes |-> <<>>]
    ELSE [raised |-> "",
          passes |-> IF button THEN offered(atts.v, selected_ids) ELSE <<>>]

\* One run of the script, top to bottom.  An exception in the submit handler
\* ends the run before the list is read.
ScriptRun(trigger, f, token, now, id, selected_ids) ==
    \E fb \in {init_firebase} :
    \E h \in {IF trigger = "submit"
              THEN submit_handler(fb.client, f, token, now, id)
              ELSE [msg |-> NoMsg, raised |-> "", coll |-> coll,
                    exists |-> file_exists, file |-> file]} :
    \E read \in {IF h.raised # "" THEN None
                 ELSE IF fb.client = "remote" THEN read_from_firestore(h.coll)
                 ELSE load_local(h.exists, h.file)} :
    \E ls \in {list_section(read, trigger = "generate", selected_ids)} :
        /\ op' = trigger
        /\ form' = f
        /\ db_client' = fb.client
        /\ warned' = fb.warned
        /\ msg' = h.msg
        /\ coll' = h.coll
        /\ file_exists' = h.exists
        /\ file' = h.file
        /\ IF h.raised # ""
           THEN exc' = h.raised /\ attendees' = None /\ passes' = <<>>
           ELSE exc' = ls.raised /\ attendees' = read /\ passes' = ls.passes
        /\ saved' = IF trigger = "submit" /\ ~name_missing(f)
                        /\ fb.client = "local" /\ h.raised = ""
                     THEN Append(saved, build_doc(f, token, now))
                     ELSE saved
        /\ UNCHANGED <<FIREBASE_AVAILABLE, creds, sessions>>

\* Records held by the two stores.
Stored == Cardinality(DOMAIN coll) + Len(load_local(file_exists, file).v)

\* The page is opened or refreshed.
PageLoad ==
    \E trigger \in {"load"} : ScriptRun(trigger, NoForm, <<>>, <<>>, 0, {})

\* "Save Attendee" is pressed.
\* uuid4 is called only when the reference is blank, the store assigns an id
\* only when a document is written.
Submit ==
    /\ op # "start"
    /\ LET written(f) == ~name_missing(f) /\ init_firebase.client = "remote"
       IN  \E room \in {Stored < MaxRecords}, f \in Forms :
            /\ name_missing(f) \/ room
            /\ \E token \in (IF name_missing(f) \/ strip(f.reference) # <<>>
                               THEN {<<>>} ELSE Tokens),
                  now \in Timestamps,
                  id \in (IF written(f) THEN DocIds \ DOMAIN coll ELSE {0}) :
                    ScriptRun("submit", f, token, now, id, {})

\* The identifiers the multiselect of the last page offers.
Options ==
    IF exc = "" /\ attendees.t = "arr"
    THEN {Ident(attendees.v[i]) : i \in 1..Len(attendees.v)}
    ELSE {}

\* "Generate & Download Passes" is pressed with some identifiers selected.
GeneratePasses ==
    \E selected_ids \in SUBSET Options :
        /\ exc = "" /\ Truthy(attendees)
        /\ ScriptRun("generate", NoForm, <<>>, <<>>, 0, selected_ids)

\* The credentials file is put in place, replaced or removed between two runs.
CredentialsChange ==
    \E c \in {"absent", "malformed", "valid"} :
        /\ c # creds
        /\ creds' = c
        /\ UNCHANGED <<FIREBASE_AVAILABLE, store_vars, run_vars, saved, sessions>>

\* No script run has happened.
NoRunYet ==
    /\ op = "start"
    /\ form = NoForm
    /\ db_client = "local"
    /\ warned = FALSE
    /\ msg = NoMsg
    /\ attendees = None
    /\ passes = <<>>
    /\ exc = ""

Init ==
    /\ FIREBASE_AVAILABLE \in BOOLEAN
    /\ creds \in {"absent", "malformed", "valid"}
    /\ coll = <<>>
    /\ file_exists = FALSE
    /\ file = <<>>
    /\ NoRunYet
    /\ saved = <<>>
    /\ sessions = <<>>

\* A session whose credentials file stays as the first run found it.
Next == PageLoad \/ Submit \/ GeneratePasses

Spec == Init /\ [][Next]_vars

\* A session during which the credentials file may change between runs.
NextSession == Next \/ CredentialsChange

SpecSession == Init /\ [][NextSession]_vars

\* ------------------------------------------------------------------------
\* The local file as found at startup
\* ------------------------------------------------------------------------

\* Contents LOCAL_DB_FILE can hold when the page starts: written by an
\* earlier session, cut short, emptied, or edited by hand.
StartContents ==
    { <<>>,
      <<"[", "{", "\"", "n", "a">>,
      <<"[", "]">>,
      <<"{", "\"", "n", "a", "m", "e", "\"", ":", " ", "\"", "A", "\"", "}">>,
      <<"\"", "x", "\"">>,
      <<"[", "\"", "x", "\"", "]">>,
      json_dump(Arr(<<build_doc(Form(<<"Z">>, <<>>, <<>>, <<>>, <<"R", "0">>),
                                <<>>, <<"T", "0">>)>>)) }

InitFile ==
    /\ FIREBASE_AVAILABLE \in BOOLEAN
    /\ creds \in {"absent", "malformed", "valid"}
    /\ coll = <<>>
    /\ file_exists \in BOOLEAN
    /\ file \in (IF file_exists THEN StartContents ELSE {<<>>})
    /\ NoRunYet
    /\ saved = <<>>
    /\ sessions = <<>>

SpecFile == InitFile /\ [][Next]_vars

\* ------------------------------------------------------------------------
\* Two sessions inside the submit handler on the local backend
\* ------------------------------------------------------------------------

Sessions == {"s1", "s2"}

\* open(LOCAL_DB_FILE, "r+") leaves the content in place.
open_keep(content) == content

\* open(LOCAL_DB_FILE, "w") truncates the file.
open_w(content) == <<>>

\* The buffered text of json.dump reaches the file in one write at offset 0
\* of the writer's own descriptor: what lies beyond it stays.
write_at_0(text, content) ==
    text \o SubSeq(content, Len(text) + 1, Len(content))

\* The list the file holds before the sessions start.
PriorLists ==
    { <<>>,
      <<build_doc(Form(<<"Z">>, <<>>, <<>>, <<>>, <<"R", "0">>), <<>>, <<"T", "0">>)>> }

InitRace ==
    /\ FIREBASE_AVAILABLE \in BOOLEAN
    /\ creds = "absent"
    /\ coll = <<>>
    /\ \E prior \in PriorLists :
        /\ file_exists = (prior # <<>>)
        /\ file = (IF prior = <<>> THEN <<>> ELSE json_dump(Arr(prior)))
        /\ sessions = [pc    |-> [p \in Sessions |-> "form"],
                       doc   |-> [p \in Sessions |-> None],
                       data  |-> [p \in Sessions |-> None],
                       prior |-> prior,
                       log   |-> <<>>]
    /\ NoRunYet
    /\ saved = <<>>

Step(p, to, event) ==
    [sessions EXCEPT !.pc[p] = to, !.log = Append(@, <<event, p>>)]

\* The handler of session p builds its document from a valid form.
RaceSubmit(p) ==
    /\ sessions.pc[p] = "form"
    /\ \E f \in Forms :
        /\ ~name_missing(f)
        /\ \E token \in (IF strip(f.reference) # <<>> THEN {<<>>} ELSE Tokens),
              now \in Timestamps :
            sessions' = [Step(p, "load", "submit") EXCEPT
                            !.doc[p] = build_doc(f, token, now)]
    /\ UNCHANGED <<env_vars, store_vars, run_vars, saved>>

\* save_local: data = load_local(); data.append(att)
RaceLoad(p) ==
    /\ sessions.pc[p] = "load"
    /\ \E a \in {list_append(load_local(file_exists, file), sessions.doc[p])} :
        sessions' = [Step(p, IF a.raised = "" THEN "open" ELSE "failed", "load")
                        EXCEPT !.data[p] = a.data]
    /\ UNCHANGED <<env_vars, store_vars, run_vars, saved>>

\* save_local: with open(LOCAL_DB_FILE, "w", encoding="utf-8") as f
RaceOpen(p) ==
    /\ sessions.pc[p] = "open"
    /\ file_exists' = TRUE
    /\ file' = open_w(file)
    /\ sessions' = Step(p, "dump", "open")
    /\ UNCHANGED <<env_vars, coll, run_vars, saved>>

\* save_local: json.dump(data, f, indent=2) and the close of f
RaceDump(p) ==
    /\ sessions.pc[p] = "dump"
    /\ file' = write_at_0(json_dump(sessions.data[p]), file)
    /\ sessions' = Step(p, "done", "write")
    /\ UNCHANGED <<env_vars, coll, file_exists, run_vars, saved>>

NextRace ==
    \E p \in Sessions : RaceSubmit(p) \/ RaceLoad(p) \/ RaceOpen(p) \/ RaceDump(p)

SpecRace == InitRace /\ [][NextRace]_vars

\* ------------------------------------------------------------------------
\* Properties
\* ------------------------------------------------------------------------

\* list_all() of a backend on the stores as they are.
list_all(db) ==
    IF db = "remote" THEN read_from_firestore(coll) ELSE load_local(file_exists, file)

\* A sequence without its i-th element.
RemoveAt(seq, i) == SubSeq(seq, 1, i - 1) \o SubSeq(seq, i + 1, Len(seq))

Field(rec, key) == dict_get(rec.v, key, None)

\* The record carries the trimmed values of the form.
CarriesForm(rec, f) ==
    /\ Field(rec, k_name) = Str(strip(f.name))
    /\ Field(rec, k_class) = Str(strip(f.cls))
    /\ Field(rec, k_age) = Str(strip(f.age))
    /\ Field(rec, k_contact) = Str(strip(f.contact))
    /\ Field(rec, k_reference).t = "str"
    /\ Field(rec, k_reference).v # <<>>
    /\ strip(f.reference) # <<>> => Field(rec, k_reference) = Str(strip(f.reference))

\* The step is a script run triggered by the form (a change of the
\* credentials file between two runs leaves op as it was).
SubmitStep == op' = "submit" /\ creds' = creds

\* C1: a Submit whose name is non-empty after trimming, on either backend,
\* ends without an exception, and the list read back after it is the list
\* of that backend before it plus exactly one new record, which carries the
\* trimmed name, class, age and contact of the form and, as reference, the
\* trimmed form value when that is non-empty.
C1_SubmitAddsOneRecord ==
    [][ (SubmitStep /\ strip(form'.name) # <<>>) =>
          /\ exc' = ""
          /\ msg'.kind = "success"
          /\ attendees'.t = "arr"
          /\ \E i \in 1..Len(attendees'.v) :
                /\ RemoveAt(attendees'.v, i) = list_all(db_client').v
                /\ CarriesForm(attendees'.v[i], form') ]_vars

\* A padded name was submitted and came back trimmed as the second record.
C1_Witness ==
    /\ op = "submit"
    /\ form.name = <<" ", "A", " ">>
    /\ exc = ""
    /\ Len(attendees.v) = 2
    /\ \E i \in 1..2 : Field(attendees.v[i], k_name) = Str(<<"A">>)

\* C2: a Submit whose name is empty or whitespace-only reports the
\* validation error and writes nothing: the remote collection and the local
\* file are as they were.
C2_BlankNameWritesNothing ==
    [][ (SubmitStep /\ strip(form'.name) = <<>>) =>
          /\ msg'.kind = "error"
          /\ coll' = coll
          /\ file_exists' = file_exists
          /\ file' = file ]_vars

\* A whitespace-only name was rejected while a store held a record.
C2_Witness ==
    /\ op = "submit"
    /\ form.name = <<" ", "\t">>
    /\ msg.kind = "error"
    /\ Stored > 0

NonEmptyText(val) == val.t = "str" /\ val.v # <<>>

\* C3: every record persisted by the system, in the collection or in the
\* file, has a non-empty name and a non-empty reference.
C3_NameAndReferencePresent ==
    /\ \A id \in DOMAIN coll :
          NonEmptyText(Field(coll[id], k_name)) /\ NonEmptyText(Field(coll[id], k_reference))
    /\ LET recs == load_local(file_exists, file).v IN
       \A i \in 1..Len(recs) :
          NonEmptyText(Field(recs[i], k_name)) /\ NonEmptyText(Field(recs[i], k_reference))

\* A whitespace-only reference was submitted and a generated one is stored.
C3_Witness ==
    /\ op = "submit"
    /\ form.reference = <<" ">>
    /\ exc = ""
    /\ \E i \in 1..Len(attendees.v) : Field(attendees.v[i], k_reference).v \in Tokens

\* C4: no step removes or alters a persisted record: every record list_all
\* returns on a backend before the step is returned by it, with the same
\* field values, after the step (at the same place of the file, under the
\* same id of the collection).
C4_RecordsImmutable ==
    [][ /\ \A id \in DOMAIN coll : id \in DOMAIN coll' /\ coll'[id] = coll[id]
        /\ \/ file_exists' = file_exists /\ file' = file
           \/ LET before == load_local(file_exists, file).v
                  after  == load_local(file_exists', file').v
              IN  /\ Len(before) <= Len(after)
                  /\ \A i \in 1..Len(before) : after[i] = before[i] ]_vars

\* Passes were generated from a list of two records.
C4_Witness ==
    /\ op = "generate"
    /\ Len(passes) > 0
    /\ Len(attendees.v) = 2

\* C5: starting from an absent file, after N calls of save_local the file
\* read back by load_local is exactly the N documents, in the order of the
\* calls, each with all its field values.
C5_LocalRoundTrip ==
    load_local(file_exists, file) = Arr(saved)

\* Two different documents were saved, one holding a quote and a backslash.
C5_Witness ==
    /\ Len(saved) = 2
    /\ saved[1] # saved[2]
    /\ \E i \in 1..2 : Field(saved[i], k_class) = Str(<<"3", "\"">>)
                       /\ Field(saved[i], k_contact) = Str(<<"\\", "5">>)

\* The file holds an array of records.
HoldsRecordArray ==
    /\ file_exists
    /\ json_load(file).ok
    /\ json_load(file).v.t = "arr"
    /\ \A i \in 1..Len(json_load(file).v.v) : json_load(file).v.v[i].t = "obj"

\* C6: on the local backend no run ends with an exception, whatever the
\* file holds, and a page load that finds the file absent or without a
\* valid record array lists nothing.
C6_BadFileListsEmpty ==
    (op # "start" /\ db_client = "local") =>
        /\ exc = ""
        /\ (op = "load" /\ ~HoldsRecordArray) => attendees = Arr(<<>>)

\* C7: no two records of the list read back share the identifier under
\* which they are offered for export.  Two generated references that
\* collide are left aside: the claim is held to the identifiers the store
\* assigned and the references the users typed.
C7_IdentifiersUnique ==
    (exc = "" /\ attendees.t = "arr") =>
        \A i, j \in 1..Len(attendees.v) :
            i # j => \/ Ident(attendees.v[i]) # Ident(attendees.v[j])
                     \/ Ident(attendees.v[i]).v \in Tokens

OptionalKeys == {k_class, k_age, k_contact, k_reference}

\* The line of a pass that shows the field.
LineOf(key) ==
    CASE key = k_class -> 2 [] key = k_age -> 3 [] key = k_contact -> 4
      [] key = k_reference -> 5

FixedLabels ==
    << "", "Class / Grade : ", "Age           : ", "Contact       : ",
       "Reference     : ", "- Please carry this pass during the event.",
       "- Parents/Guardians must supervise children." >>

\* C8: every pass offered has the seven lines in their fixed order, and
\* shows a dash for every optional field its record has no value for.
C8_DashForMissingFields ==
    \A n \in 1..Len(passes) :
        /\ Len(passes[n].pdf) = Len(FixedLabels)
        /\ \A l \in 1..Len(FixedLabels) : passes[n].pdf[l].label = FixedLabels[l]
        /\ \A key \in OptionalKeys :
              Field(passes[n].of, key).v = <<>> => passes[n].pdf[LineOf(key)].text = <<"-">>

\* C9: once a run has fallen back to the local backend, every later run of
\* the session uses the local backend.
C9_BackendFixedForSession ==
    [][ (op # "start" /\ db_client = "local") => db_client' = "local" ]_vars

\* ------------------------------------------------------------------------
\* The race of two submits
\* ------------------------------------------------------------------------

\* The place of an event of a session in the log.
At(event, p) ==
    CHOOSE i \in 1..Len(sessions.log) : sessions.log[i] = <<event, p>>

BothDone == \A p \in Sessions : sessions.pc[p] = "done"

\* Both sessions read the file before either opened it for writing.
BothReadFirst == \A p, q \in Sessions : At("load", p) < At("open", q)

LastWriter == CHOOSE p \in Sessions : \A q \in Sessions : At("write", q) <= At("write", p)

FirstWriter == CHOOSE p \in Sessions : p # LastWriter

\* One session closed the file before the other opened it.
RewritesApart == At("write", FirstWriter) < At("open", LastWriter)

\* The file is the array of the earlier records and the last writer's
\* record; the earlier writer's record is not in it.
LastWriterWins ==
    /\ file_exists
    /\ json_load(file).ok
    /\ json_load(file).v = Arr(Append(sessions.prior, sessions.doc[LastWriter]))

\* C10 as stated: when both sessions read the file before either rewrites
\* it, the final file is a valid array holding every earlier record and the
\* last writer's record, and not the earlier writer's.
C10_LostUpdateLeavesValidArray ==
    (BothDone /\ BothReadFirst) => LastWriterWins

\* C10 amended: when both sessions read the file before either rewrites it
\* and the earlier writer closes the file before the later one opens it, the
\* final file is a valid array holding every earlier record and the last
\* writer's record, and not the earlier writer's.
C10_LostUpdateUnlessOverlap ==
    (BothDone /\ BothReadFirst /\ RewritesApart) => LastWriterWins

\* Two different documents were submitted on a file holding a record, both
\* sessions read before either rewrote, and the earlier writer's record is
\* lost.
C10_Witness ==
    /\ BothDone
    /\ BothReadFirst
    /\ RewritesApart
    /\ sessions.prior # <<>>
    /\ sessions.doc[FirstWriter] # sessions.doc[LastWriter]
    /\ LastWriterWins

====
